---- MODULE Spec2Model ----
(***************************************************************************)
(* Traffic survey analysis: the two scripts of the repository.             *)
(*                                                                         *)
(*   template_cw_a_b_c.py  console session: date prompts, process_csv_data,*)
(*                         analyze_data, save_results_to_file (main)       *)
(*   template_cw_d_e.py    dialog session: MultiCSVProcessor and           *)
(*                         HistogramApp                                    *)
(*                                                                         *)
(* A behaviour is one run of one of the two scripts (variable prog).       *)
(*                                                                         *)
(* Text.  A Python str is a sequence of one-character strings, so that     *)
(* split(':') and int() are computed on the characters.  A cell whose      *)
(* content is only compared as a whole (a junction name, a vehicle type, a *)
(* date) is written as a one-token sequence, T("Truck").  Python's None is *)
(* the sequence None, whose token no cell contains.                        *)
(***************************************************************************)
EXTENDS Integers, Sequences, FiniteSets, TLC

(* Bounds of the model. *)
MaxRows == 3
MaxPasses == 2

---------------------------------------------------------------------------
(* Python values *)

None == <<"<None>">>

T(s) == <<s>>

Truthy(v) == v # None /\ v # <<>>

get(row, key, default) == IF key \in DOMAIN row THEN row[key] ELSE default

Digit == {"0", "1", "2", "3", "4", "5", "6", "7", "8", "9"}

DigitVal(c) ==
  CASE c = "0" -> 0 [] c = "1" -> 1 [] c = "2" -> 2 [] c = "3" -> 3
    [] c = "4" -> 4 [] c = "5" -> 5 [] c = "6" -> 6 [] c = "7" -> 7
    [] c = "8" -> 8 [] c = "9" -> 9

DigitChar(n) ==
  CASE n = 0 -> "0" [] n = 1 -> "1" [] n = 2 -> "2" [] n = 3 -> "3"
    [] n = 4 -> "4" [] n = 5 -> "5" [] n = 6 -> "6" [] n = 7 -> "7"
    [] n = 8 -> "8" [] n = 9 -> "9"

RECURSIVE lstrip(_)
lstrip(s) == IF s # <<>> /\ Head(s) = " " THEN lstrip(Tail(s)) ELSE s

RECURSIVE rstrip(_)
rstrip(s) ==
  IF s # <<>> /\ s[Len(s)] = " " THEN rstrip(SubSeq(s, 1, Len(s) - 1)) ELSE s

strip(s) == rstrip(lstrip(s))

upper(s) ==
  [i \in 1..Len(s) |->
     CASE s[i] = "y" -> "Y" [] s[i] = "n" -> "N" [] s[i] = "q" -> "Q"
       [] OTHER -> s[i]]

(* The digits of an int() literal: surrounding blanks and one sign removed. *)
int_digits(s) ==
  LET t == strip(s)
  IN  IF t # <<>> /\ Head(t) \in {"+", "-"} THEN Tail(t) ELSE t

(* int(s) returns a value: s is a str holding an optionally signed run of    *)
(* decimal digits, blanks around it allowed.  Otherwise int(s) raises        *)
(* (ValueError for a str, TypeError for None).                               *)
int_ok(s) ==
  /\ s # None
  /\ int_digits(s) # <<>>
  /\ \A i \in 1..Len(int_digits(s)) : int_digits(s)[i] \in Digit

int_error(s) == IF s = None THEN "TypeError" ELSE "ValueError"

RECURSIVE digits_value(_)
digits_value(ds) ==
  IF ds = <<>> THEN 0
  ELSE 10 * digits_value(SubSeq(ds, 1, Len(ds) - 1)) + DigitVal(ds[Len(ds)])

int(s) ==
  LET t == strip(s)
      v == digits_value(int_digits(s))
  IN  IF Head(t) = "-" THEN 0 - v ELSE v

(* s.split(':')[0]: the characters before the first ':' (all of s without one). *)
RECURSIVE split0(_)
split0(s) ==
  IF s = <<>> \/ Head(s) = ":" THEN <<>> ELSE <<Head(s)>> \o split0(Tail(s))

(* str(n) for n >= 0, and the format spec 02d. *)
RECURSIVE str(_)
str(n) == IF n < 10 THEN <<DigitChar(n)>> ELSE str(n \div 10) \o <<DigitChar(n % 10)>>

format02d(n) == IF n < 10 THEN <<"0">> \o str(n) ELSE str(n)

(* round(n / d) for integers n >= 0, d > 0: to the nearest integer, a tie to *)
(* the even one.  The float quotient (m / t) * 100 of a percentage rounds    *)
(* as the exact quotient does for every total below 40; at 23 of 40 the      *)
(* float product falls just under 57.5 and rounds to 57.                     *)
round_div(n, d) ==
  LET q == n \div d
      r == n % d
  IN  IF 2 * r < d THEN q
      ELSE IF 2 * r > d THEN q + 1
      ELSE IF q % 2 = 0 THEN q ELSE q + 1

(* sum(1 for row in data if P(row)) *)
count(data, P(_)) == Cardinality({i \in 1..Len(data) : P(data[i])})

(* An insertion-ordered dict: a sequence of [key, value] with distinct keys. *)
dict_keys(d) == {d[i].key : i \in 1..Len(d)}

dict_get(d, k) == d[CHOOSE i \in 1..Len(d) : d[i].key = k].value

dict_incr(d, k) ==
  IF k \in dict_keys(d)
  THEN [i \in 1..Len(d) |->
          IF d[i].key = k THEN [key |-> k, value |-> d[i].value + 1] ELSE d[i]]
  ELSE Append(d, [key |-> k, value |-> 1])

RECURSIVE dict_sum(_)
dict_sum(d) == IF d = <<>> THEN 0 ELSE Head(d).value + dict_sum(Tail(d))

RECURSIVE dict_max(_)
dict_max(d) ==
  IF Len(d) = 1 THEN d[1].value
  ELSE LET m == dict_max(Tail(d))
       IN  IF Head(d).value > m THEN Head(d).value ELSE m

(* Sequences over S of length at most n. *)
SeqUpTo(S, n) == UNION {[1..k -> S] : k \in 0..n}

---------------------------------------------------------------------------
(* template_cw_a_b_c.py: the rows a survey file can hold *)

ELM == T("Elm Avenue/Rabbit Road")
HANLEY == T("Hanley Highway/Westway")

Row(vt, eh, jn, din, dout, vs, sl, tod) ==
  [VehicleType |-> T(vt), elctricHybrid |-> T(eh), JunctionName |-> jn,
   travel_Direction_in |-> T(din), travel_Direction_out |-> T(dout),
   VehicleSpeed |-> vs, JunctionSpeedLimit |-> sl, timeOfDay |-> tod]

Limit30 == <<"3", "0">>

(* Sample rows: every vehicle type the metrics name, both junctions, hour   *)
(* texts "08", "8", "09", "10", an empty and a missing time, and speed      *)
(* cells that int() accepts (also with a blank) and rejects.                *)
SurveyRows ==
  { Row("Truck", "False", HANLEY, "N", "N", <<"4", "5">>, Limit30,
        <<"0", "8", ":", "1", "5">>),
    Row("Scooter", "True", ELM, "N", "S", <<"2", "5">>, Limit30,
        <<"0", "8", ":", "4", "0">>),
    Row("Bicycle", "False", HANLEY, "S", "S", <<"1", "2">>, Limit30,
        <<"0", "9", ":", "0", "0">>),
    Row("Buss", "False", ELM, "N", "N", <<"3", "0">>, Limit30, None),
    Row("Car", "True", HANLEY, "E", "W", <<"a", "b", "c">>, Limit30,
        <<"0", "9", ":", "4", "5">>),
    Row("Motorcycle", "False", ELM, "W", "W", <<"5", "0">>, <<>>,
        <<"1", "0", ":", "1", "0">>),
    Row("Bicycle", "True", HANLEY, "N", "E", <<" ", "3", "5">>, Limit30,
        <<"8", ":", "2", "0">>),
    Row("Car", "False", HANLEY, "S", "N", <<"3", "1">>, Limit30,
        <<"0", "8", ":", "5", "9">>),
    Row("Truck", "False", HANLEY, "W", "W", <<"2", "0">>, Limit30, <<>>) }

(* What the file name entered by the operator resolves to: no file, or a   *)
(* file with these rows (csv.DictReader, one dict per row).                *)
SurveySources ==
  {[exists |-> FALSE]}
    \cup {[exists |-> TRUE, rows |-> f] : f \in SeqUpTo(SurveyRows, MaxRows)}

---------------------------------------------------------------------------
(* template_cw_a_b_c.py: Task B *)

process_csv_data(source) ==
  IF ~source.exists
  THEN [raised |-> TRUE, exc |-> "FileNotFoundError"]
  ELSE [raised |-> FALSE, value |-> source.rows]

(* The loops of analyze_data that fill a defaultdict(int) keyed by the hour *)
(* text of the rows that have a time. *)
RECURSIVE count_per_hour(_, _)
count_per_hour(rows, acc) ==
  IF rows = <<>> THEN acc
  ELSE LET hour == get(Head(rows), "timeOfDay", None)
       IN  IF Truthy(hour)
           THEN count_per_hour(Tail(rows), dict_incr(acc, split0(hour)))
           ELSE count_per_hour(Tail(rows), acc)

(* A variant that truncates where the code rounds. *)
percentage_truncating(matching, total) ==
  IF total # 0 THEN (matching * 100) \div total ELSE 0

percentage(matching, total) ==
  IF total # 0 THEN round_div(matching * 100, total) ELSE 0

(* A variant that breaks ties: only the first hour with the maximum. *)
peak_hours_first_only(hanley_peak_hour) ==
  LET peak_hour_count ==
        IF hanley_peak_hour # <<>> THEN dict_max(hanley_peak_hour) ELSE 0
      peak == SelectSeq(hanley_peak_hour, LAMBDA e : e.value = peak_hour_count)
  IN  IF peak = <<>> THEN <<>> ELSE <<peak[1].key>>

peak_hours_of(hanley_peak_hour) ==
  LET peak_hour_count ==
        IF hanley_peak_hour # <<>> THEN dict_max(hanley_peak_hour) ELSE 0
      peak == SelectSeq(hanley_peak_hour, LAMBDA e : e.value = peak_hour_count)
  IN  [i \in 1..Len(peak) |-> peak[i].key]

(* A variant that leaves a row with a cell that is no number out of the sum. *)
over_speeding_skipping_bad(rows) ==
  [raised |-> FALSE,
   value |-> count(rows, LAMBDA row :
               /\ int_ok(row.VehicleSpeed) /\ int_ok(row.JunctionSpeedLimit)
               /\ int(row.VehicleSpeed) > int(row.JunctionSpeedLimit))]

(* over_speed: the generator converts both speed cells of each row in      *)
(* source order, and the first cell int() rejects raises out of the sum.   *)
over_speeding(rows) ==
  LET bad_speed ==
        {i \in 1..Len(rows) :
           ~int_ok(rows[i].VehicleSpeed) \/ ~int_ok(rows[i].JunctionSpeedLimit)}
      first_bad == CHOOSE i \in bad_speed : \A j \in bad_speed : i <= j
  IN  IF bad_speed # {}
      THEN [raised |-> TRUE,
            exc |-> IF ~int_ok(rows[first_bad].VehicleSpeed)
                    THEN int_error(rows[first_bad].VehicleSpeed)
                    ELSE int_error(rows[first_bad].JunctionSpeedLimit)]
      ELSE [raised |-> FALSE,
            value |-> count(rows, LAMBDA row :
                        int(row.VehicleSpeed) > int(row.JunctionSpeedLimit))]

analyze_data(rows, filename) ==
  LET data == rows
      IsType(row, vt) == row.VehicleType = T(vt)
      total_vehicles == Len(data)
      trucks == count(data, LAMBDA row : IsType(row, "Truck"))
      electric_vehicles == count(data, LAMBDA row : row.elctricHybrid = T("True"))
      two_wheeled_vehicles ==
        count(data, LAMBDA row :
                \E vt \in {"Bicycle", "Motorcycle", "Scooter"} : IsType(row, vt))
      elm_buses_north ==
        count(data, LAMBDA row :
                /\ row.JunctionName = ELM
                /\ row.travel_Direction_in = T("N")
                /\ IsType(row, "Buss"))
      no_turns ==
        count(data, LAMBDA row : row.travel_Direction_in = row.travel_Direction_out)
      over_speed == over_speeding(data)
      elm_avenue_vehicles == count(data, LAMBDA row : row.JunctionName = ELM)
      hanley_highway_vehicles == count(data, LAMBDA row : row.JunctionName = HANLEY)
      elm_scooters ==
        count(data, LAMBDA row : row.JunctionName = ELM /\ IsType(row, "Scooter"))
      elm_scooter_percentage == percentage(elm_scooters, elm_avenue_vehicles)
      bicycle_data == SelectSeq(data, LAMBDA row : IsType(row, "Bicycle"))
      bicycle_count_per_hour == count_per_hour(bicycle_data, <<>>)
      avg_bicycles_per_hour ==
        IF bicycle_count_per_hour # <<>>
        THEN round_div(dict_sum(bicycle_count_per_hour), Len(bicycle_count_per_hour))
        ELSE 0
      hanley_peak_hour ==
        count_per_hour(SelectSeq(data, LAMBDA row : row.JunctionName = HANLEY), <<>>)
      peak_hours == peak_hours_of(hanley_peak_hour)
      rain_hours ==
        count(data, LAMBDA row :
                get(row, "timeOfDay", None) = <<"T", "r", "u", "e">>)
  IN  IF over_speed.raised
      THEN [raised |-> TRUE, exc |-> over_speed.exc]
      ELSE [raised |-> FALSE,
            value |->
              ("CSV File Name" :> filename)
              @@ ("Total Vehicles" :> total_vehicles)
              @@ ("Total Trucks" :> trucks)
              @@ ("Electric Vehicles" :> electric_vehicles)
              @@ ("Two-Wheeled Vehicles" :> two_wheeled_vehicles)
              @@ ("Elm Buses North" :> elm_buses_north)
              @@ ("No Turns" :> no_turns)
              @@ ("Over Speeding" :> over_speed.value)
              @@ ("Truck Percentage" :> percentage(trucks, total_vehicles))
              @@ ("Avg Bicycles per Hour" :> avg_bicycles_per_hour)
              @@ ("Over Speeding Vehicles" :> over_speed.value)
              @@ ("Elm Avenue/Rabbit Road Vehicles" :> elm_avenue_vehicles)
              @@ ("Hanley Highway/Westway Vehicles" :> hanley_highway_vehicles)
              @@ ("Scooter Percentage Elm Avenue" :> elm_scooter_percentage)
              @@ ("Peak Hour(s) Hanley Highway/Westway" :> peak_hours)
              @@ ("Total Rain Hours" :> rain_hours)]

---------------------------------------------------------------------------
(* The state of a run *)

VARIABLES
  prog,             \* the script that runs: "a_b_c" or "d_e"
  pc,               \* where the session loop of the script stands
  day, month, year, \* main: the validated date parts (0: not yet bound)
  date_input,       \* main: the file name built from them
  data,             \* main: the local data, as bound in the current iteration
  results,          \* main: the local results, as bound in the current iteration
  iteration,        \* the number of the current iteration of the session loop
  printed,          \* main: what main printed since the last date was accepted
  complaint,        \* main: what the last validate_*_input round printed
  saved,            \* main: the number of blocks appended to results.txt
  current_data,     \* MultiCSVProcessor.current_data
  date,             \* MultiCSVProcessor.date
  traffic_summary,  \* MultiCSVProcessor.traffic_summary
  boxes,            \* the message boxes shown in the current loop iteration
  plot              \* the histogram shown in the current loop iteration

vars ==
  <<prog, pc, iteration, day, month, year, date_input, data, results, printed,
    complaint, saved, current_data, date, traffic_summary, boxes, plot>>

vars_main ==
  <<day, month, year, date_input, data, results, printed, complaint, saved>>

vars_processor == <<current_data, date, traffic_summary, boxes, plot>>

(* Python objects that are not text. *)
NoneObj == [py |-> "None"]

List(items) == [py |-> "list", items |-> items]

NoPlot == [drawn |-> FALSE]

---------------------------------------------------------------------------
(* template_cw_a_b_c.py: Task A and main *)

DayInputs == {<<"1", "5">>, <<" ", "7">>, <<"3", "2">>, <<"x">>}

MonthInputs == {<<"0", "6">>, <<"1", "3">>, <<>>}

YearInputs == {<<"2", "0", "2", "4">>, <<"1", "9", "9", "9">>, <<"2", "0", "x">>}

ContinueInputs == {<<"Y">>, <<" ", "y">>, <<"N">>, <<"n", " ">>, <<"q">>}

(* One round of a validate_*_input loop on the typed text s: the value it   *)
(* returns, or the complaint it prints before prompting again.              *)
validate_input(s, low, high, range_message) ==
  IF ~int_ok(s) THEN [returned |-> FALSE, message |-> "Integer required"]
  ELSE IF low <= int(s) /\ int(s) <= high
       THEN [returned |-> TRUE, value |-> int(s)]
       ELSE [returned |-> FALSE, message |-> range_message]

validate_day_input(s) ==
  validate_input(s, 1, 31, "Out of range - values must be in the range 1 and 31.")

validate_month_input(s) ==
  validate_input(s, 1, 12, "Out of range - values must be in the range 1 to 12.")

validate_year_input(s) ==
  validate_input(s, 2000, 2024, "Out of range - values must range from 2000 and 2024.")

validate_continue_input(s) ==
  LET continue_input == upper(strip(s))
  IN  IF continue_input \in {<<"Y">>, <<"N">>}
      THEN [returned |-> TRUE, value |-> continue_input]
      ELSE [returned |-> FALSE, message |-> "Invalid input. Please enter 'Y' or 'N'."]

filename_of(d, m, y) ==
  <<"traffic_data">> \o format02d(d) \o format02d(m) \o str(y) \o <<".csv">>

(* A variant without the 'except Exception' handler: an error of          *)
(* analyze_data ends the script.                                          *)
main_try_catching_not_found_only(source, filename) ==
  LET loaded == process_csv_data(source)
      analysed == analyze_data(loaded.value, filename)
  IN  IF loaded.raised
      THEN [data |-> data, results |-> results,
            lines |-> <<[kind |-> "FileNotFoundError", file |-> filename]>>,
            appended |-> 0, next |-> "continue"]
      ELSE IF analysed.raised
      THEN [data |-> List(loaded.value), results |-> results,
            lines |-> <<[kind |-> "Traceback", exc |-> analysed.exc]>>,
            appended |-> 0, next |-> "crashed"]
      ELSE [data |-> List(loaded.value), results |-> analysed.value,
            lines |-> <<[kind |-> "Analysis Results", results |-> analysed.value],
                        [kind |-> "Results saved to 'results.txt'"]>>,
            appended |-> 1, next |-> "continue"]

(* The try statement of main on the source the file name resolves to: the   *)
(* locals it binds, what it prints, whether save_results_to_file appended a *)
(* block to results.txt, and where control goes: both handlers fall through *)
(* to the continue prompt.                                                  *)
main_try(source, filename) ==
  LET loaded == process_csv_data(source)
      analysed == analyze_data(loaded.value, filename)
  IN  IF loaded.raised
      THEN [data |-> data, results |-> results,
            lines |-> <<[kind |-> "FileNotFoundError", file |-> filename]>>,
            appended |-> 0, next |-> "continue"]
      ELSE IF analysed.raised
      THEN [data |-> List(loaded.value), results |-> results,
            lines |-> <<[kind |-> "An error occurred", exc |-> analysed.exc]>>,
            appended |-> 0, next |-> "continue"]
      ELSE [data |-> List(loaded.value), results |-> analysed.value,
            lines |-> <<[kind |-> "Analysis Results", results |-> analysed.value],
                        [kind |-> "Results saved to 'results.txt'"]>>,
            appended |-> 1, next |-> "continue"]

DayPrompt ==
  /\ prog = "a_b_c" /\ pc = "day"
  /\ \E s \in DayInputs :
       LET r == validate_day_input(s)
       IN  IF r.returned
           THEN /\ day' = r.value /\ complaint' = "" /\ pc' = "month"
           ELSE /\ complaint' = r.message /\ UNCHANGED <<day, pc>>
  /\ UNCHANGED <<prog, iteration, month, year, date_input, data, results, printed, saved>>
  /\ UNCHANGED vars_processor

MonthPrompt ==
  /\ prog = "a_b_c" /\ pc = "month"
  /\ \E s \in MonthInputs :
       LET r == validate_month_input(s)
       IN  IF r.returned
           THEN /\ month' = r.value /\ complaint' = "" /\ pc' = "year"
           ELSE /\ complaint' = r.message /\ UNCHANGED <<month, pc>>
  /\ UNCHANGED <<prog, iteration, day, year, date_input, data, results, printed, saved>>
  /\ UNCHANGED vars_processor

YearPrompt ==
  /\ prog = "a_b_c" /\ pc = "year"
  /\ \E s \in YearInputs :
       LET r == validate_year_input(s)
       IN  IF r.returned
           THEN /\ year' = r.value /\ complaint' = "" /\ pc' = "try"
                /\ date_input' = filename_of(day, month, r.value)
                /\ printed' = <<[kind |-> "Valid date input",
                                 file |-> filename_of(day, month, r.value)]>>
           ELSE /\ complaint' = r.message
                /\ UNCHANGED <<year, pc, date_input, printed>>
  /\ UNCHANGED <<prog, iteration, day, month, data, results, saved>>
  /\ UNCHANGED vars_processor

LoadAndAnalyze ==
  /\ prog = "a_b_c" /\ pc = "try"
  /\ \E source \in SurveySources :
       LET out == main_try(source, date_input)
       IN  /\ data' = out.data
           /\ results' = out.results
           /\ printed' = printed \o out.lines
           /\ saved' = saved + out.appended
           /\ pc' = out.next
  /\ UNCHANGED <<prog, iteration, day, month, year, date_input, complaint>>
  /\ UNCHANGED vars_processor

(* data and results are rebound by the try statement of the next iteration  *)
(* before anything reads them: a new iteration starts with them unbound.    *)
ContinuePrompt ==
  /\ prog = "a_b_c" /\ pc = "continue"
  /\ \E s \in ContinueInputs :
       LET r == validate_continue_input(s)
       IN  IF ~r.returned
           THEN /\ complaint' = r.message
                /\ UNCHANGED <<pc, iteration, data, results, printed>>
           ELSE IF r.value = <<"N">>
           THEN /\ printed' = Append(printed, [kind |-> "Exiting the program."])
                /\ complaint' = "" /\ pc' = "exit"
                /\ UNCHANGED <<iteration, data, results>>
           ELSE /\ iteration < MaxPasses
                /\ iteration' = iteration + 1
                /\ data' = NoneObj /\ results' = NoneObj
                /\ complaint' = "" /\ pc' = "day" /\ UNCHANGED printed
  /\ UNCHANGED <<prog, day, month, year, date_input, saved>>
  /\ UNCHANGED vars_processor

---------------------------------------------------------------------------
(* template_cw_d_e.py: the files the operator can select *)

Day1 == T("2024-06-15")
Day2 == T("2024-06-16")

Cell(d, tod, jn) == [Date |-> d, timeOfDay |-> tod, JunctionName |-> jn]

(* Sample rows: two dates and an empty date; hour texts "08" and "8" (the   *)
(* same hour), "09", a non-numeric, an empty and a missing (None: the row   *)
(* is shorter than the header) time; a named, an empty and a missing        *)
(* junction.                                                                *)
TrafficRows ==
  { Cell(Day1, <<"0", "8", ":", "1", "5">>, HANLEY),
    Cell(Day1, <<"8", ":", "3", "0">>, HANLEY),
    Cell(Day1, <<"0", "9", ":", "0", "0">>, ELM),
    Cell(Day2, <<"0", "8", ":", "4", "5">>, ELM),
    Cell(Day1, <<"a", "b", ":", "0", "0">>, HANLEY),
    Cell(Day1, <<"1", "0", ":", "1", "0">>, <<>>),
    Cell(Day1, None, None),
    Cell(Day2, <<>>, HANLEY),
    Cell(<<>>, <<"0", "7", ":", "0", "0">>, ELM) }

Columns == {"Date", "timeOfDay", "JunctionName"}

(* The header rows of the files: all columns, or one of them left out. *)
Headers == {Columns} \cup {Columns \ {c} : c \in Columns}

(* What the file dialog and open() give: the dialog is cancelled, the       *)
(* chosen file cannot be opened, or it is read.                             *)
Selections ==
  {[kind |-> "cancelled"], [kind |-> "unreadable"]}
    \cup {[kind |-> "file", header |-> h, rows |-> f] :
            h \in Headers, f \in SeqUpTo(TrafficRows, MaxRows)}

(* list(csv.DictReader(file)): one dict per row, keyed by the header. *)
DictReader(file) ==
  [i \in 1..Len(file.rows) |-> [c \in file.header |-> file.rows[i][c]]]

---------------------------------------------------------------------------
(* template_cw_d_e.py: HistogramApp *)

Box(kind, title) == [kind |-> kind, title |-> title]

draw_histogram(traffic_data, for_date) ==
  IF DOMAIN traffic_data = {}
  THEN [boxes |-> <<Box("error", "No Data")>>, plot |-> NoPlot]
  ELSE LET hours == DOMAIN traffic_data
           junctions == UNION {DOMAIN traffic_data[h] : h \in hours}
       IN  [boxes |-> <<>>,
            plot |-> [drawn |-> TRUE,
                      title |-> for_date,
                      hours |-> hours,
                      junctions |-> junctions,
                      volume |-> [h \in hours |-> [j \in junctions |->
                                    get(traffic_data[h], j, 0)]]]]

---------------------------------------------------------------------------
(* template_cw_d_e.py: MultiCSVProcessor *)

(* A variant that sets the cell to 1 where the code adds 1. *)
increment_overwriting(summary, hour, junction) ==
  LET row == get(summary, hour, <<>>)
  IN  [h \in DOMAIN summary \cup {hour} |->
         IF h = hour
         THEN [j \in DOMAIN row \cup {junction} |->
                 IF j = junction THEN 1 ELSE row[j]]
         ELSE summary[h]]

(* traffic_summary[hour][junction] += 1, creating the entries it needs. *)
increment(summary, hour, junction) ==
  LET row == get(summary, hour, <<>>)
      volume == get(row, junction, 0)
  IN  [h \in DOMAIN summary \cup {hour} |->
         IF h = hour
         THEN [j \in DOMAIN row \cup {junction} |->
                 IF j = junction THEN volume + 1 ELSE row[j]]
         ELSE summary[h]]

(* The loop of process_data over the rows left, from the table so far: the  *)
(* table it leaves, the box it shows when it stops and the exception it     *)
(* lets through.                                                            *)
RECURSIVE process_rows(_, _, _)
process_rows(rows, target, summary) ==
  IF rows = <<>>
  THEN [summary |-> summary, boxes |-> <<>>, raised |-> "none", stopped |-> FALSE]
  ELSE
    LET row == Head(rows)
        junction == get(row, "JunctionName", T("Unknown"))
    IN  IF row.Date # target THEN process_rows(Tail(rows), target, summary)
        ELSE IF "timeOfDay" \notin DOMAIN row
        THEN [summary |-> summary, boxes |-> <<Box("error", "Invalid Data")>>,
              raised |-> "none", stopped |-> TRUE]
        ELSE IF row.timeOfDay = None
        THEN [summary |-> summary, boxes |-> <<>>,
              raised |-> "AttributeError", stopped |-> TRUE]
        ELSE IF ~int_ok(split0(row.timeOfDay))
        THEN [summary |-> summary, boxes |-> <<Box("error", "Invalid Data")>>,
              raised |-> "none", stopped |-> TRUE]
        ELSE IF ~Truthy(junction)
        THEN [summary |-> summary, boxes |-> <<Box("error", "Missing Data")>>,
              raised |-> "none", stopped |-> TRUE]
        ELSE process_rows(Tail(rows), target, 
                          increment(summary, int(split0(row.timeOfDay)), junction))

(* A variant that empties the table when it stops on a row. *)
process_data_clearing(current, target, summary) ==
  IF current.py = "None" \/ current.items = <<>> \/ ~Truthy(target)
  THEN [summary |-> summary, boxes |-> <<>>, raised |-> "none", stopped |-> FALSE]
  ELSE LET out == process_rows(current.items, target, <<>>)
       IN  IF out.stopped THEN [out EXCEPT !.summary = <<>>] ELSE out

process_data(current, target, summary) ==
  IF current.py = "None" \/ current.items = <<>> \/ ~Truthy(target)
  THEN [summary |-> summary, boxes |-> <<>>, raised |-> "none", stopped |-> FALSE]
  ELSE process_rows(current.items, target, <<>>)

Failed(exc) == Box("error", "Failed to load file: " \o exc)

(* A variant without the 'CSV file is empty.' check. *)
read_csv_accepting_empty(selection) ==
  IF selection.kind = "unreadable"
  THEN [raised |-> TRUE, exc |-> "OSError", current_data |-> current_data]
  ELSE [raised |-> FALSE, current_data |-> List(DictReader(selection))]

(* The with statement of load_csv_file and the check that follows it: the   *)
(* value bound to current_data, and the exception raised.                   *)
read_csv(selection) ==
  IF selection.kind = "unreadable"
  THEN [raised |-> TRUE, exc |-> "OSError", current_data |-> current_data]
  ELSE IF DictReader(selection) = <<>>
  THEN [raised |-> TRUE, exc |-> "CSV file is empty.",
        current_data |-> List(DictReader(selection))]
  ELSE [raised |-> FALSE, current_data |-> List(DictReader(selection))]

(* load_csv_file on what the dialog gives, with `first` the date that        *)
(* next(iter(dates)) yields: the fields it leaves and the boxes it shows.   *)
load_csv_file(selection, first) ==
  LET opened == read_csv(selection)
      read == opened.current_data
      dates == {read.items[i].Date : i \in 1..Len(read.items)}
      warning ==
        IF Cardinality(dates) > 1
        THEN <<Box("warning", "Multiple Dates")>> ELSE <<>>
      grouped == process_data(read, first, traffic_summary)
  IN  IF selection.kind = "cancelled"
      THEN [current_data |-> current_data, date |-> date,
            traffic_summary |-> traffic_summary,
            boxes |-> <<Box("error", "No File")>>]
      ELSE IF opened.raised
      THEN [current_data |-> read, date |-> date,
            traffic_summary |-> traffic_summary,
            boxes |-> <<Failed(opened.exc)>>]
      ELSE IF "Date" \notin selection.header
      THEN [current_data |-> read, date |-> date,
            traffic_summary |-> traffic_summary,
            boxes |-> <<Failed("KeyError")>>]
      ELSE [current_data |-> read, date |-> first,
            traffic_summary |-> grouped.summary,
            boxes |-> warning \o grouped.boxes
                        \o (IF grouped.raised = "none"
                            THEN <<>> ELSE <<Failed(grouped.raised)>>)]

(* The dates next(iter(dates)) can yield: the set is iterated in hash       *)
(* order, which the interpreter randomises per run.                         *)
first_dates(selection) ==
  IF selection.kind = "file" /\ "Date" \in selection.header /\ selection.rows # <<>>
  THEN {selection.rows[i].Date : i \in 1..Len(selection.rows)}
  ELSE {None}

(* A variant that forgets to clear the table. *)
clear_keeping_summary ==
  [current_data |-> NoneObj, date |-> None, traffic_summary |-> traffic_summary]

clear_previous_data ==
  [current_data |-> NoneObj, date |-> None, traffic_summary |-> <<>>]

(* Message boxes and the plot window are modal: none is open when an        *)
(* iteration starts.                                                        *)
ClearPreviousData ==
  /\ prog = "d_e" /\ pc = "clear"
  /\ current_data' = clear_previous_data.current_data
  /\ date' = clear_previous_data.date
  /\ traffic_summary' = clear_previous_data.traffic_summary
  /\ boxes' = <<>>
  /\ plot' = NoPlot
  /\ pc' = "load"
  /\ UNCHANGED <<prog, iteration>>
  /\ UNCHANGED vars_main

LoadCsvFile ==
  /\ prog = "d_e" /\ pc = "load"
  /\ \E selection \in Selections :
       \E first \in first_dates(selection) :
         LET out == load_csv_file(selection, first)
         IN  /\ current_data' = out.current_data
             /\ date' = out.date
             /\ traffic_summary' = out.traffic_summary
             /\ boxes' = boxes \o out.boxes
  /\ pc' = "show"
  /\ UNCHANGED <<prog, iteration, plot>>
  /\ UNCHANGED vars_main

ShowHistogram ==
  /\ prog = "d_e" /\ pc = "show"
  /\ IF DOMAIN traffic_summary # {}
     THEN LET app == draw_histogram(traffic_summary, date)
          IN  /\ boxes' = boxes \o app.boxes
              /\ plot' = app.plot
     ELSE UNCHANGED <<boxes, plot>>
  /\ pc' = "ask"
  /\ UNCHANGED <<prog, iteration, current_data, date, traffic_summary>>
  /\ UNCHANGED vars_main

AskNewDataset ==
  /\ prog = "d_e" /\ pc = "ask"
  /\ \E response \in BOOLEAN :
       IF response
       THEN /\ iteration < MaxPasses
            /\ iteration' = iteration + 1
            /\ pc' = "clear" /\ UNCHANGED boxes
       ELSE /\ pc' = "exit" /\ boxes' = Append(boxes, Box("info", "Exit"))
            /\ UNCHANGED iteration
  /\ UNCHANGED <<prog, current_data, date, traffic_summary, plot>>
  /\ UNCHANGED vars_main

---------------------------------------------------------------------------
(* A run *)

Init ==
  /\ prog \in {"a_b_c", "d_e"}
  /\ pc = IF prog = "a_b_c" THEN "day" ELSE "clear"
  /\ day = 0 /\ month = 0 /\ year = 0
  /\ date_input = <<>>
  /\ iteration = 1
  /\ data = NoneObj
  /\ results = NoneObj
  /\ printed = <<>>
  /\ complaint = ""
  /\ saved = 0
  /\ current_data = NoneObj
  /\ date = None
  /\ traffic_summary = <<>>
  /\ boxes = <<>>
  /\ plot = NoPlot

Next ==
  \/ DayPrompt
  \/ MonthPrompt
  \/ YearPrompt
  \/ LoadAndAnalyze
  \/ ContinuePrompt
  \/ ClearPreviousData
  \/ LoadCsvFile
  \/ ShowHistogram
  \/ AskNewDataset

Spec == Init /\ [][Next]_vars

(* handle_user_interaction goes on from load_csv_file to the histogram and *)
(* the prompt without waiting for anything: the step is taken.  (In main   *)
(* the whole try statement is one step, which ends at the prompt.)         *)
FairSpec == Spec /\ WF_vars(ShowHistogram)

---------------------------------------------------------------------------
(* What the properties speak of, stated from the rows and not by the loops *)

(* The rows MultiCSVProcessor holds. *)
Held == IF current_data.py = "list" THEN current_data.items ELSE <<>>

Matches(i) == "Date" \in DOMAIN Held[i] /\ Held[i].Date = date

HasHour(i) ==
  /\ "timeOfDay" \in DOMAIN Held[i]
  /\ Held[i].timeOfDay # None
  /\ int_ok(split0(Held[i].timeOfDay))

HourText(i) == split0(Held[i].timeOfDay)

JunctionKey(i) ==
  IF "JunctionName" \in DOMAIN Held[i] THEN Held[i].JunctionName ELSE T("Unknown")

Valid(i) == HasHour(i) /\ Truthy(JunctionKey(i))

(* The matching valid rows among the first n with hour h and junction j. *)
Tally(n, h, j) ==
  Cardinality({i \in 1..n :
                 /\ Matches(i) /\ Valid(i)
                 /\ int(HourText(i)) = h /\ JunctionKey(i) = j})

Counted == {i \in 1..Len(Held) : Matches(i) /\ Valid(i)}

AllHours == DOMAIN traffic_summary \cup {int(HourText(i)) : i \in Counted}

AllJunctions ==
  UNION {DOMAIN traffic_summary[h] : h \in DOMAIN traffic_summary}
    \cup {JunctionKey(i) : i \in Counted}

CellAt(h, j) == get(get(traffic_summary, h, <<>>), j, 0)

Cells ==
  UNION {{<<h, j>> : j \in DOMAIN traffic_summary[h]} : h \in DOMAIN traffic_summary}

RECURSIVE Volume(_)
Volume(C) ==
  IF C = {} THEN 0
  ELSE LET c == CHOOSE x \in C : TRUE
       IN  traffic_summary[c[1]][c[2]] + Volume(C \ {c})

ErrorShown == \E i \in 1..Len(boxes) : boxes[i].kind = "error"

ValidationStop ==
  \E i \in 1..Len(boxes) : boxes[i].title \in {"Invalid Data", "Missing Data"}

AfterLoad == prog = "d_e" /\ pc \in {"show", "ask", "exit"}

AfterShow == prog = "d_e" /\ pc \in {"ask", "exit"}

(* The histogram shows the table and the date the processor holds. *)
PlotIsTable ==
  /\ plot.title = date
  /\ plot.hours = DOMAIN traffic_summary
  /\ \A h \in plot.hours : \A j \in plot.junctions :
       plot.volume[h][j] = CellAt(h, j)

(* main: the rows and the results of the current iteration. *)
Loaded == prog = "a_b_c" /\ data.py = "list"

Analysed == "Total Vehicles" \in DOMAIN results

BadSpeed(row) == ~int_ok(row.VehicleSpeed) \/ ~int_ok(row.JunctionSpeedLimit)

Number(P(_)) == Cardinality({i \in 1..Len(data.items) : P(data.items[i])})

LastPrinted == printed[Len(printed)]

---------------------------------------------------------------------------
(* C1: isolation across dataset passes.  Whatever the processor holds and  *)
(* shows was counted from the rows of the file loaded in the same pass:    *)
(* every cell of traffic_summary is at least 1 and at most the number of   *)
(* held rows of the held date with that hour and junction, the date is one *)
(* of the held rows' dates (or None), and a drawn histogram shows that     *)
(* table and date.  After a failed load nothing is held, so the table is   *)
(* empty.                                                                  *)
C1_Isolation ==
  prog = "d_e" =>
    /\ \A c \in Cells :
         /\ traffic_summary[c[1]][c[2]] >= 1
         /\ traffic_summary[c[1]][c[2]] <= Tally(Len(Held), c[1], c[2])
    /\ date = None \/ \E i \in 1..Len(Held) : Matches(i)
    /\ plot.drawn => PlotIsTable

(* A second pass has drawn its table. *)
C1_Witness ==
  /\ prog = "d_e" /\ iteration >= 2 /\ pc = "ask"
  /\ plot.drawn /\ Cells # {}

---------------------------------------------------------------------------
(* The Hanley Highway/Westway rows with hour text h, and the hour texts of *)
(* the Hanley Highway/Westway rows that have a time.                       *)
HanleyAt(h) ==
  Number(LAMBDA row :
           /\ row.JunctionName = HANLEY
           /\ Truthy(row.timeOfDay) /\ split0(row.timeOfDay) = h)

HanleyHours ==
  {split0(data.items[i].timeOfDay) :
     i \in {k \in 1..Len(data.items) :
              /\ data.items[k].JunctionName = HANLEY
              /\ Truthy(data.items[k].timeOfDay)}}

PeakHours == results["Peak Hour(s) Hanley Highway/Westway"]

(* C2: the peak hours are exactly the hour texts whose number of Hanley    *)
(* Highway/Westway rows is the maximum over all hour texts, each listed    *)
(* once; they are empty when no such row has a time.                       *)
C2_PeakHours ==
  (Loaded /\ Analysed) =>
    /\ {PeakHours[i] : i \in 1..Len(PeakHours)}
         = {h \in HanleyHours : \A g \in HanleyHours : HanleyAt(g) <= HanleyAt(h)}
    /\ Cardinality({PeakHours[i] : i \in 1..Len(PeakHours)}) = Len(PeakHours)

(* Two hours tie for the maximum. *)
C2_Witness ==
  /\ Loaded /\ Analysed
  /\ Len(PeakHours) = 2
  /\ \A h \in HanleyHours : HanleyAt(h) = 1

---------------------------------------------------------------------------
(* v is an integer nearest to n / d: no further from it than one half. *)
IsRounded(v, n, d) ==
  /\ 2 * (v * d - n) <= d
  /\ 2 * (n - v * d) <= d

IsPercentage(v, matching, total) ==
  /\ v \in 0..100
  /\ total = 0 => v = 0
  /\ total > 0 => IsRounded(v, 100 * matching, total)

(* C3: each percentage is an integer nearest to 100 * matching / total,    *)
(* lies in 0..100, and is 0 when its total is 0; analyze_data raises only  *)
(* for a speed cell that is no number, never for a total of 0.             *)
C3_Percentages ==
  Loaded =>
    /\ Analysed <=> \A i \in 1..Len(data.items) : ~BadSpeed(data.items[i])
    /\ Analysed =>
         /\ IsPercentage(results["Truck Percentage"],
                         Number(LAMBDA row : row.VehicleType = T("Truck")),
                         Len(data.items))
         /\ IsPercentage(results["Scooter Percentage Elm Avenue"],
                         Number(LAMBDA row : /\ row.JunctionName = ELM
                                             /\ row.VehicleType = T("Scooter")),
                         Number(LAMBDA row : row.JunctionName = ELM))

(* Two trucks of three vehicles, none at Elm Avenue: 67 and 0. *)
C3_Witness ==
  /\ Loaded /\ Analysed
  /\ results["Truck Percentage"] = 67
  /\ Number(LAMBDA row : row.JunctionName = ELM) = 0
  /\ results["Scooter Percentage Elm Avenue"] = 0

---------------------------------------------------------------------------
(* C4: when a loaded row has a VehicleSpeed or JunctionSpeedLimit that      *)
(* int() rejects, analyze_data returns no results: its ValueError reaches   *)
(* main, which prints it, and no results are printed for the pass.          *)
C4_ParseErrorPropagates ==
  (Loaded /\ pc = "continue"
     /\ \E i \in 1..Len(data.items) : BadSpeed(data.items[i])) =>
    /\ ~Analysed
    /\ LastPrinted.kind = "An error occurred"
    /\ LastPrinted.exc = "ValueError"
    /\ \A i \in 1..Len(printed) : printed[i].kind # "Analysis Results"

(* A file of several rows, the last of them with the bad cell. *)
C4_Witness ==
  /\ Loaded /\ pc = "continue"
  /\ Len(data.items) >= 2
  /\ BadSpeed(data.items[Len(data.items)])
  /\ ~BadSpeed(data.items[1])

---------------------------------------------------------------------------
(* Row i has a timeOfDay or a JunctionName that is absent or empty. *)
MissingField(i) ==
  \/ get(Held[i], "timeOfDay", None) \in {None, <<>>}
  \/ get(Held[i], "JunctionName", None) \in {None, <<>>}

(* C5: whenever a row of the target date has a timeOfDay or a JunctionName  *)
(* that is absent or empty, the pass shows an error and the table counts    *)
(* only rows that come before it.                                           *)
C5_MissingFieldStops ==
  AfterLoad =>
    \A i \in 1..Len(Held) :
      (Matches(i) /\ MissingField(i)) =>
        /\ ErrorShown
        /\ \A c \in Cells : traffic_summary[c[1]][c[2]] <= Tally(i - 1, c[1], c[2])

---------------------------------------------------------------------------
MainPcs == {"day", "month", "year", "try", "continue", "exit"}

ProcessorPcs == {"clear", "load", "show", "ask", "exit"}

AtPrompt == pc \in {"continue", "ask"}

(* main: the pass bound no results. *)
MainPassFailed == prog = "a_b_c" /\ pc = "continue" /\ ~Analysed

(* MultiCSVProcessor: nothing was read, or a row of the (non-empty) target  *)
(* date cannot be grouped.                                                  *)
ProcessorPassFailed ==
  /\ AfterLoad
  /\ \/ Held = <<>>
     \/ "Date" \notin DOMAIN Held[1]
     \/ Truthy(date) /\ \E i \in 1..Len(Held) : Matches(i) /\ ~Valid(i)

(* Each script stands at a place of its loop, and a failed pass has told    *)
(* the operator.                                                            *)
C6_Informed ==
  /\ prog = "a_b_c" => pc \in MainPcs
  /\ prog = "d_e" => pc \in ProcessorPcs
  /\ MainPassFailed =>
       \E i \in 1..Len(printed) :
         printed[i].kind \in {"FileNotFoundError", "An error occurred"}
  /\ ProcessorPassFailed => ErrorShown

C6_WitnessMain == iteration >= 2 /\ MainPassFailed /\ Loaded

---------------------------------------------------------------------------
(* The analysis of no rows: every count, percentage and average is 0 and    *)
(* there is no peak hour.                                                   *)
EmptyAnalysis ==
  /\ Analysed
  /\ \A k \in DOMAIN results \ {"CSV File Name", "Peak Hour(s) Hanley Highway/Westway"} :
       results[k] = 0
  /\ PeakHours = <<>>
  /\ \A i \in 1..Len(printed) : printed[i].kind # "An error occurred"

MainRanOnEmpty == Loaded /\ pc \in {"continue", "exit"} /\ data.items = <<>>

ProcessorRanOnEmpty == AfterLoad /\ current_data.py = "list" /\ Held = <<>>

(* C7 as stated: an empty source is a valid result of a pass.  The analysis *)
(* of no rows is all zeros with no peak hour and raises nothing, and the    *)
(* processor ends the pass with an empty table and without an error.        *)
C7_EmptySourceValid ==
  /\ MainRanOnEmpty => EmptyAnalysis
  /\ ProcessorRanOnEmpty => (traffic_summary = <<>> /\ ~ErrorShown)

(* C7 as amended: the analysis of no rows is all zeros with no peak hour    *)
(* and raises nothing; the processor ends the pass with an empty table, no  *)
(* date and no histogram, after showing the error "Failed to load file:     *)
(* CSV file is empty.".                                                     *)
C7_EmptySourceReported ==
  /\ MainRanOnEmpty => EmptyAnalysis
  /\ ProcessorRanOnEmpty =>
       /\ traffic_summary = <<>>
       /\ date = None
       /\ boxes[1] = Failed("CSV file is empty.")
       /\ ~plot.drawn

(* The processor stands at its prompt after an empty file. *)
C7_Witness == ProcessorRanOnEmpty /\ pc = "ask"

(* The analysis of an empty file was printed. *)
C7_WitnessMain == MainRanOnEmpty /\ Analysed

---------------------------------------------------------------------------
(* process_data ran to the end of the rows: rows are held, the target date  *)
(* is not empty and no error was shown.                                     *)
Completed == AfterLoad /\ Held # <<>> /\ Truthy(date) /\ ~ErrorShown

(* Row k is a counted row with the hour text and the junction of row i. *)
SameBucket(i, k) ==
  /\ Matches(k) /\ Valid(k)
  /\ HourText(k) = HourText(i) /\ JunctionKey(k) = JunctionKey(i)

(* C8 as stated: after a grouping without a stop, the cell of a row's hour  *)
(* bucket and junction holds the number of rows of the target date whose    *)
(* text before the first ':' is that bucket and whose junction is that      *)
(* junction.                                                                *)
C8_TableExactByText ==
  Completed =>
    \A i \in 1..Len(Held) :
      Matches(i) =>
        /\ Valid(i)
        /\ CellAt(int(HourText(i)), JunctionKey(i))
             = Cardinality({k \in 1..Len(Held) : SameBucket(i, k)})

(* C8 as amended: after a grouping that ran to the end of the rows (rows    *)
(* held, a non-empty target date, no error shown), traffic_summary[h][j] is *)
(* the number of rows of the target date whose hour, the integer value of   *)
(* the text before the first ':', is h and whose junction, the JunctionName *)
(* or 'Unknown' when the file has no such column, is j; rows of other dates *)
(* count nowhere, no cell holds 0, and the cells add up to the number of    *)
(* rows of the target date.                                                 *)
C8_TableExact ==
  Completed =>
    /\ \A i \in 1..Len(Held) : Matches(i) => Valid(i)
    /\ \A h \in AllHours : \A j \in AllJunctions :
         CellAt(h, j) = Tally(Len(Held), h, j)
    /\ \A c \in Cells : traffic_summary[c[1]][c[2]] >= 1
    /\ Volume(Cells) = Cardinality({i \in 1..Len(Held) : Matches(i)})

(* Rows "08:15" and "8:30" of one junction share cell 8, and a row of the   *)
(* other date is left out.                                                  *)
C8_Witness ==
  /\ Completed
  /\ \E c \in Cells : traffic_summary[c[1]][c[2]] = 2
  /\ \E i, k \in 1..Len(Held) :
       /\ Matches(i) /\ Matches(k) /\ HourText(i) # HourText(k)
       /\ int(HourText(i)) = int(HourText(k)) /\ JunctionKey(i) = JunctionKey(k)
  /\ \E i \in 1..Len(Held) : ~Matches(i)

---------------------------------------------------------------------------
(* C9: the target date of a pass is the Date of the first row of the file, *)
(* and only rows of that date are counted.                                 *)
C9_FirstDateUsed ==
  (AfterLoad /\ Held # <<>> /\ "Date" \in DOMAIN Held[1]) =>
    /\ date = Held[1].Date
    /\ \A c \in Cells :
         traffic_summary[c[1]][c[2]] <= Tally(Len(Held), c[1], c[2])

---------------------------------------------------------------------------
(* The rows of the target date that cannot be grouped, and the first. *)
Invalid == {i \in 1..Len(Held) : Matches(i) /\ ~Valid(i)}

FirstInvalid == CHOOSE i \in Invalid : \A k \in Invalid : i <= k

(* C10: after a validation stop the table holds exactly the counts of the   *)
(* rows of the target date that precede the first row that cannot be        *)
(* grouped, and the histogram is drawn from that table if and only if it is *)
(* not empty.                                                               *)
C10_PartialTable ==
  (AfterLoad /\ ValidationStop) =>
    /\ Invalid # {}
    /\ \A h \in AllHours : \A j \in AllJunctions :
         CellAt(h, j) = Tally(FirstInvalid - 1, h, j)
    /\ AfterShow =>
         /\ plot.drawn <=> Cells # {}
         /\ plot.drawn => PlotIsTable

(* A stop after counted rows: the partial table was drawn. *)
C10_Witness ==
  /\ AfterShow /\ ValidationStop
  /\ plot.drawn /\ Cells # {}
  /\ FirstInvalid < Len(Held)

(* A stop at the first row: nothing is drawn. *)
C10_WitnessEmpty == AfterShow /\ ValidationStop /\ ~plot.drawn

====
